---- MODULE Spec2Model ----
(***************************************************************************)
(* Model of the interactive SQLite shell of src/sqlcli.py (class           *)
(* SQLiteCLI): the session state kept by the shell, one action per command *)
(* handler, and the pieces of the environment the handlers act on (the     *)
(* database files behind the engine, the directories and the export files  *)
(* of the filesystem, the terminal output of the last command).            *)
(*                                                                         *)
(* Texts are sequences of strings: a path is the sequence of its           *)
(* components, a statement the sequence of its words, a numeric argument   *)
(* the sequence of its characters.  The wall-clock fields of a history     *)
(* entry (timestamp, execution_time) are left out: no handler reads them   *)
(* back except to print them.                                              *)
(***************************************************************************)
EXTENDS Integers, Sequences, FiniteSets, TLC

\* ---------------------------------------------------------------- bounds
MaxHist == 3          \* statements recorded in one session
MaxRows == 2          \* rows inserted into one table
MaxHandles == 2       \* engine handles that can exist at once
MaxShown == 4         \* rows of a result set handed to the display
MaxPage == 3          \* page sizes tried by the display, besides the default

\* ------------------------------------------------------ program constants
DefaultPageSize == 20

VARIABLES
    connection,       \* self.connection: None or the handle held
    database_path,    \* self.database_path
    query_history,    \* self.query_history
    last_results,     \* self.last_results
    page_size,        \* self.page_size
    open_handles,     \* engine: ids of the handles that are open
    db,               \* engine: content of each database file
    dirs,             \* filesystem: directories that exist
    files,            \* filesystem: export files written by save
    running,          \* cmdloop has not been stopped
    line,             \* the input line just processed: [cmd, arg]
    out,              \* the message the last command printed
    shown,            \* what the last command listed (history entries, status)
    display           \* _display_results: its position and what it has printed

session == <<connection, database_path, query_history, last_results, page_size>>
environment == <<open_handles, db, dirs, files>>
vars == <<connection, database_path, query_history, last_results, page_size,
          open_handles, db, dirs, files, running, line, out, shown, display>>

\* ------------------------------------------------------------ Python values
None == [id |-> 0, path |-> <<>>]
NoPath == <<>>

IntVal(n) == [t |-> "int", i |-> n, s |-> ""]
StrVal(x) == [t |-> "str", i |-> 0, s |-> x]

DigitChars == <<"0", "1", "2", "3", "4", "5", "6", "7", "8", "9">>

IsDigit(c) == \E k \in 1..10 : DigitChars[k] = c

DigitVal(c) == (CHOOSE k \in 1..10 : DigitChars[k] = c) - 1

\* str(v) of a fetched value, for the values the model stores (0..9)
Str(v) == IF v.t = "int" THEN StrVal(DigitChars[v.i + 1]) ELSE v

Upper(w) ==
    CASE w = "select" -> "SELECT"
      [] w = "from"   -> "FROM"
      [] w = "query"  -> "QUERY"
      [] OTHER        -> w

Lower(w) ==
    CASE w = "JSON" -> "json"
      [] w = "CSV"  -> "csv"
      [] w = "TXT"  -> "txt"
      [] w = "XML"  -> "xml"
      [] w = "Q"    -> "q"
      [] OTHER      -> w

RECURSIVE LStrip(_)
LStrip(s) == IF s # <<>> /\ Head(s) = " " THEN LStrip(Tail(s)) ELSE s

RECURSIVE RStrip(_)
RStrip(s) ==
    IF s # <<>> /\ s[Len(s)] = " " THEN RStrip(SubSeq(s, 1, Len(s) - 1)) ELSE s

Strip(s) == RStrip(LStrip(s))

RECURSIVE DigitsValue(_)
DigitsValue(s) ==
    IF s = <<>> THEN 0
    ELSE 10 * DigitsValue(SubSeq(s, 1, Len(s) - 1)) + DigitVal(s[Len(s)])

\* int(text.strip()): [ok |-> FALSE] stands for ValueError
ParseInt(text) ==
    LET t      == Strip(text)
        signed == t # <<>> /\ Head(t) \in {"-", "+"}
        digits == IF signed THEN Tail(t) ELSE t
    IN  IF digits # <<>> /\ \A k \in 1..Len(digits) : IsDigit(digits[k])
        THEN [ok |-> TRUE,
              val |-> IF signed /\ Head(t) = "-" THEN 0 - DigitsValue(digits)
                      ELSE DigitsValue(digits)]
        ELSE [ok |-> FALSE, val |-> 0]

\* seq[start:] of Python, start possibly negative
PySliceFrom(seq, start) ==
    LET n  == Len(seq)
        s0 == IF start < 0 THEN start + n ELSE start
        s1 == IF s0 < 0 THEN 0 ELSE IF s0 > n THEN n ELSE s0
    IN  SubSeq(seq, s1 + 1, n)

\* ---------------------------------------------------------------- filesystem
P_DEMO  == <<"demo.db">>
P_OTHER == <<"data", "other.db">>
P_TMP   == <<"tmp">>                 \* an existing directory
P_RO    == <<"ro", "new", "x.db">>   \* below a directory that is not writable

DbPaths == {P_DEMO, P_OTHER}
InitialDirs == {<<"tmp">>, <<"ro">>}
ReadOnlyDirs == {<<"ro">>}

\* os.path.dirname
Dirname(path) == SubSeq(path, 1, Len(path) - 1)

\* os.makedirs(d) succeeds
CanMakedirs(d) == Dirname(d) \notin ReadOnlyDirs

\* sqlite3.connect(path) succeeds
CanOpen(path, existing) == path \in DbPaths /\ path \notin existing

\* open(filename, 'w') succeeds
CanWrite(filename, existing) == <<filename>> \notin existing

FileNames == {"out"}
Absent == [fmt |-> "absent", data |-> <<>>]

\* ------------------------------------------------------------------- engine
S_CREATE == <<"CREATE", "TABLE", "t(a INT)">>
S_INSERT == <<"INSERT", "INTO", "t", "VALUES", "(1)">>
S_INSERT_X == <<"INSERT", "INTO", "t", "VALUES", "('x')">>
S_DELETE == <<"DELETE", "FROM", "t">>
S_PRAGMA == <<"PRAGMA", "table_info(t)">>
S_SELECT == <<"SELECT", "*", "FROM", "t">>
S_select == <<"select", "*", "from", "t">>
S_BAD    == <<"SELEC", "*", "FROM", "t">>

EmptyDb == [tbl |-> FALSE, rows |-> <<>>]

\* cursor.execute(sql) on database content d, then fetchall/commit/rowcount:
\* err: the engine raised; rows: what fetchall returns; rowcount: cursor.rowcount
Execute(d, sql) ==
    LET words == [k \in 1..Len(sql) |-> Upper(sql[k])]
        fail  == [err |-> TRUE, rows |-> <<>>, rowcount |-> -1, d |-> d]
    IN  CASE words = S_CREATE ->
               IF d.tbl THEN fail
               ELSE [err |-> FALSE, rows |-> <<>>, rowcount |-> -1,
                     d |-> [d EXCEPT !.tbl = TRUE]]
          [] words = S_INSERT ->
               IF ~d.tbl THEN fail
               ELSE [err |-> FALSE, rows |-> <<>>, rowcount |-> 1,
                     d |-> [d EXCEPT !.rows = Append(@, <<IntVal(1)>>)]]
          [] words = S_INSERT_X ->
               IF ~d.tbl THEN fail
               ELSE [err |-> FALSE, rows |-> <<>>, rowcount |-> 1,
                     d |-> [d EXCEPT !.rows = Append(@, <<StrVal("x")>>)]]
          [] words = S_DELETE ->
               IF ~d.tbl THEN fail
               ELSE [err |-> FALSE, rows |-> <<>>, rowcount |-> Len(d.rows),
                     d |-> [d EXCEPT !.rows = <<>>]]
          [] words = S_PRAGMA ->
               [err |-> FALSE,
                rows |-> IF d.tbl THEN <<<<IntVal(0), StrVal("a")>>>> ELSE <<>>,
                rowcount |-> -1, d |-> d]
          [] words = S_SELECT ->
               IF ~d.tbl THEN fail
               ELSE [err |-> FALSE, rows |-> d.rows, rowcount |-> -1, d |-> d]
          [] OTHER -> fail

\* ----------------------------------------------------------------- handlers
\* A handler that only prints: nothing of the session or the environment moves
Say(msg) ==
    /\ out' = msg
    /\ shown' = <<>>
    /\ UNCHANGED <<session, environment, running>>

\* variant of Close that leaves the handle open
NoClose(conn, handles) == handles

\* connection.close() of the handle held, if any
Close(conn, handles) == IF conn # None THEN handles \ {conn.id} ELSE handles

\* the handle sqlite3.connect returns
NewHandle(handles) ==
    CHOOSE h \in 1..MaxHandles :
        /\ h \notin handles
        /\ \A g \in 1..MaxHandles : g \notin handles => h <= g

\* self._show_tables(): the listing, or the engine error it catches
ShowTables == IF connection.id \in open_handles THEN "tables: listed"
              ELSE "tables: error retrieving tables"

\* variant of CarriedOver that starts the new connection with a fresh session
ResetOnConnect ==
    /\ query_history' = <<>>
    /\ last_results' = <<>>
    /\ UNCHANGED <<page_size, db, files, running>>

\* a successful connect assigns self.connection and self.database_path and
\* no other field
CarriedOver ==
    UNCHANGED <<query_history, last_results, page_size, db, files, running>>

do_connect(args) ==
    IF args = <<>> THEN Say("connect: usage")
    ELSE
        LET database == Strip(args)
            closed   == Close(connection, open_handles)
            db_dir   == Dirname(database)
            mkdir    == db_dir # <<>> /\ db_dir \notin dirs
            made     == IF mkdir THEN dirs \cup {db_dir} ELSE dirs
        IN  IF mkdir /\ ~CanMakedirs(db_dir)
            THEN \* os.makedirs raised: except Exception
                 /\ open_handles' = closed
                 /\ out' = "connect: unexpected error"
                 /\ shown' = <<>>
                 /\ UNCHANGED <<session, db, dirs, files, running>>
            ELSE IF ~CanOpen(database, made)
            THEN \* sqlite3.connect raised: except sqlite3.Error
                 /\ open_handles' = closed
                 /\ dirs' = made
                 /\ out' = "connect: database connection error"
                 /\ shown' = <<>>
                 /\ UNCHANGED <<session, db, files, running>>
            ELSE LET h == NewHandle(closed)
                 IN  /\ connection' = [id |-> h, path |-> database]
                     /\ database_path' = database
                     /\ open_handles' = closed \cup {h}
                     /\ dirs' = made
                     /\ out' = "connect: connected"
                     /\ shown' = <<>>
                     /\ CarriedOver

\* variant of IsSelect without upper()
IsSelectCaseSensitive(sql) == Head(Strip(sql)) = "SELECT"

\* sql_query.strip().upper().startswith('SELECT')
IsSelect(sql) == Upper(Head(Strip(sql))) = "SELECT"

\* variant of FetchRow that renders the values as text
FetchRowAsText(row) == [a |-> Str(row[1])]

\* dict(row) of a fetched row of table t(a)
FetchRow(row) == [a |-> row[1]]

SelectEntry(sql, results) == [query |-> sql, row_count |-> Len(results)]

WriteEntry(sql, rows_affected) == [query |-> sql, rows_affected |-> rows_affected]

\* variant of AppendHistory that inserts at the front
PrependHistory(history, entry) == <<entry>> \o history

\* self.query_history.append(entry)
AppendHistory(history, entry) == Append(history, entry)

\* self._display_results(results, t): what it announces
DisplayResults(results) ==
    IF results = <<>> THEN "query: no results found" ELSE "query: results"

do_query(args) ==
    IF connection = None THEN Say("query: no connection")
    ELSE IF args = <<>> THEN Say("query: usage")
    ELSE IF connection.id \notin open_handles
    THEN Say("query: SQL error")      \* cursor() on a closed database
    ELSE
        LET sql_query == Strip(args)
            r == Execute(db[connection.path], sql_query)
        IN  IF r.err THEN Say("query: SQL error")
            ELSE IF IsSelect(sql_query)
            THEN /\ last_results' = [k \in 1..Len(r.rows) |-> FetchRow(r.rows[k])]
                 /\ query_history' =
                        AppendHistory(query_history, SelectEntry(sql_query, r.rows))
                 /\ out' = DisplayResults(last_results')
                 /\ shown' = <<>>
                 /\ UNCHANGED <<connection, database_path, page_size,
                                environment, running>>
            ELSE /\ db' = [db EXCEPT ![connection.path] = r.d]
                 /\ query_history' =
                        AppendHistory(query_history, WriteEntry(sql_query, r.rowcount))
                 /\ out' = "query: executed"
                 /\ shown' = <<>>
                 /\ UNCHANGED <<connection, database_path, last_results, page_size,
                                open_handles, dirs, files, running>>

\* variant of HasResults that lets an empty result set through
AlwaysHasResults(results) == TRUE

\* the guard of do_save: not "not self.last_results"
HasResults(results) == results # <<>>

TableColumns == <<"a">>

\* the text of one row, column by column: str(row.get(col, ''))
RowText(row) == [k \in 1..Len(TableColumns) |-> Str(row[TableColumns[k]]).s]

\* _save_csv, _save_json, _save_txt: the content the file is left with
Export(format_type, results) ==
    CASE format_type = "csv" ->
           [fmt |-> "csv",
            data |-> IF results = <<>> THEN <<>>
                     ELSE <<TableColumns>> \o [k \in 1..Len(results) |-> RowText(results[k])]]
      [] format_type = "json" ->
           [fmt |-> "json", data |-> results]
      [] format_type = "txt" ->
           [fmt |-> "txt",
            data |-> IF results = <<>> THEN <<<<"No results to save">>>>
                     ELSE <<TableColumns, <<"-">>>> \o
                          [k \in 1..Len(results) |-> RowText(results[k])]]
      [] OTHER -> Absent

do_save(args) ==
    IF ~HasResults(last_results) THEN Say("save: no results to save")
    ELSE IF args = <<>> THEN Say("save: usage")
    ELSE
        LET filename    == args[1]
            format_type == IF Len(args) > 1 THEN Lower(args[2]) ELSE "csv"
        IN  IF format_type \notin {"csv", "json", "txt"}
            THEN Say("save: unsupported format")
            ELSE IF ~CanWrite(filename, dirs)
            THEN Say("save: error saving file")
            ELSE /\ files' = [files EXCEPT ![filename] = Export(format_type, last_results)]
                 /\ out' = "save: saved"
                 /\ shown' = <<>>
                 /\ UNCHANGED <<session, open_handles, db, dirs, running>>

\* self.query_history[-limit:] if limit else self.query_history
HistoryToShow(history, limit) ==
    IF limit # 0 THEN PySliceFrom(history, 0 - limit) ELSE history

do_history(args) ==
    IF query_history = <<>> THEN Say("history: no query history")
    ELSE IF args # <<>> /\ ~ParseInt(args).ok THEN Say("history: invalid limit")
    ELSE /\ shown' = IF args # <<>>
                     THEN HistoryToShow(query_history, ParseInt(args).val)
                     ELSE query_history
         /\ out' = "history: listed"
         /\ UNCHANGED <<session, environment, running>>

do_tables(args) ==
    IF connection = None THEN Say("tables: no connection")
    ELSE Say(ShowTables)

\* PRAGMA table_info(table_name): the columns the engine lists
TableInfo(d, table_name) ==
    IF d.tbl /\ table_name = <<"t">> THEN TableColumns ELSE <<>>

do_describe(args) ==
    IF connection = None THEN Say("describe: no connection")
    ELSE IF args = <<>> THEN Say("describe: usage")
    ELSE IF connection.id \notin open_handles THEN Say("describe: SQL error")
    ELSE IF TableInfo(db[connection.path], Strip(args)) = <<>>
    THEN Say("describe: table not found")
    ELSE Say("describe: listed")

\* variant of ValidPageSize that lets 0 through
NonNegativePageSize(new_size) == ~(new_size < 0)

\* the check of do_pagesize: not "new_size < 1"
ValidPageSize(new_size) == ~(new_size < 1)

do_pagesize(args) ==
    IF args = <<>> THEN Say("pagesize: current page size")
    ELSE IF ~ParseInt(args).ok THEN Say("pagesize: invalid page size number")
    ELSE IF ~ValidPageSize(ParseInt(args).val)
    THEN Say("pagesize: must be greater than 0")
    ELSE /\ page_size' = ParseInt(args).val
         /\ out' = "pagesize: set"
         /\ shown' = <<>>
         /\ UNCHANGED <<connection, database_path, query_history, last_results,
                        environment, running>>

do_clear(args) == Say("clear: screen cleared")

\* the lines do_status prints when connected: the path, the number of
\* statements in the history, the page size and, when there are results,
\* their number
StatusReport ==
    IF last_results # <<>>
    THEN [connected_to |-> database_path, queries_executed |-> Len(query_history),
          page_size |-> page_size, last_result_count |-> Len(last_results)]
    ELSE [connected_to |-> database_path, queries_executed |-> Len(query_history),
          page_size |-> page_size]

do_status(args) ==
    IF connection # None
    THEN /\ out' = "status: connected"
         /\ shown' = <<StatusReport>>
         /\ UNCHANGED <<session, environment, running>>
    ELSE Say("status: no connection")

do_quit(args) ==
    /\ open_handles' = Close(connection, open_handles)
    /\ running' = FALSE
    /\ out' = IF connection # None THEN "quit: connection closed, goodbye"
              ELSE "quit: goodbye"
    /\ shown' = <<>>
    /\ UNCHANGED <<session, db, dirs, files>>

do_exit(args) == do_quit(args)

default(text) == Say("unknown command")

\* _display_results has not been entered
NotDisplaying ==
    [pc |-> "idle", page_start |-> 0, displayed |-> <<>>, pages |-> 0,
     prompts |-> 0, answers |-> <<>>]

\* variant of emptyline: what cmd.Cmd does when emptyline is not overridden,
\* the last statement or connect is run again
emptyline_repeats_lastcmd ==
    CASE line.cmd = "query"   -> do_query(line.arg)
      [] line.cmd = "connect" -> do_connect(line.arg)
      [] OTHER                -> Say("")

emptyline == Say("")

Init ==
    /\ connection = None
    /\ database_path = NoPath
    /\ query_history = <<>>
    /\ last_results = <<>>
    /\ page_size = DefaultPageSize
    /\ open_handles = {}
    /\ db = [p \in DbPaths |-> EmptyDb]
    /\ dirs = InitialDirs
    /\ files = [f \in FileNames |-> Absent]
    /\ running = TRUE
    /\ line = [cmd |-> "", arg |-> <<>>]
    /\ out = ""
    /\ shown = <<>>
    /\ display = NotDisplaying

\* ------------------------------------------------------------- input lines
ConnectArgs  == {<<>>, P_DEMO, P_OTHER, P_TMP, P_RO}
QueryArgs    == {<<>>, S_CREATE, S_INSERT, S_INSERT_X, S_DELETE, S_PRAGMA,
                 S_SELECT, S_select, S_BAD}
SaveArgs     == {<<>>, <<"out">>, <<"out", "json">>, <<"out", "TXT">>,
                 <<"out", "xml">>, <<"tmp">>}
HistoryArgs  == {<<>>, <<"0">>, <<"1">>, <<"2">>, <<"a", "b", "c">>}
PagesizeArgs == {<<>>, <<"0">>, <<"-", "5">>, <<"a", "b", "c">>, <<"2">>}
DescribeArgs == {<<>>, <<"t">>, <<"nosuch">>}
UnknownLines == {[cmd |-> "foo", arg |-> <<>>], [cmd |-> "QUERY", arg |-> S_SELECT]}

\* cmdloop reads one line and onecmd splits it into the keyword and the rest
Read(cmd, arg) ==
    /\ running
    /\ line' = [cmd |-> cmd, arg |-> arg]
    /\ UNCHANGED display

\* the statement fits the bounds of the model
WithinBounds(sql) ==
    /\ Len(query_history) < MaxHist
    /\ IF sql \in {S_INSERT, S_INSERT_X} /\ connection # None
       THEN Len(db[connection.path].rows) < MaxRows
       ELSE TRUE

connect == \E a \in ConnectArgs :
    Cardinality(open_handles) < MaxHandles /\ Read("connect", a) /\ do_connect(a)

query == \E a \in QueryArgs : WithinBounds(a) /\ Read("query", a) /\ do_query(a)

save == \E a \in SaveArgs : Read("save", a) /\ do_save(a)

history == \E a \in HistoryArgs : Read("history", a) /\ do_history(a)

tables == Read("tables", <<>>) /\ do_tables(<<>>)

describe == \E a \in DescribeArgs : Read("describe", a) /\ do_describe(a)

pagesize == \E a \in PagesizeArgs : Read("pagesize", a) /\ do_pagesize(a)

clear == Read("clear", <<>>) /\ do_clear(<<>>)

status == Read("status", <<>>) /\ do_status(<<>>)

quit == Read("quit", <<>>) /\ do_quit(<<>>)

exit == Read("exit", <<>>) /\ do_exit(<<>>)

empty == Read("", <<>>) /\ emptyline

unknown == \E l \in UnknownLines : Read(l.cmd, l.arg) /\ default(l)

Next ==
    \/ connect
    \/ query
    \/ save
    \/ history
    \/ tables
    \/ describe
    \/ pagesize
    \/ clear
    \/ status
    \/ quit
    \/ exit
    \/ empty
    \/ unknown

Spec == Init /\ [][Next]_vars

\* ------------------------------------------------------- _display_results
\* The pager, step by step: one step per page printed and one per answer the
\* operator gives to the prompt.  It is entered from the SELECT branch of
\* do_query, after last_results and the history entry have been stored.
\* Column widths and the truncation of a cell to its width are left out: a
\* printed row is recorded by the text of its cells.

\* min(page_start + self.page_size, len(results))
PageEnd(page_start, size, n) ==
    IF page_start + size < n THEN page_start + size ELSE n

\* variant of PromptAfterPage without the test "page_end < len(results)"
PromptAfterEveryPage(page_end, size, n) == n > size

\* the prompt is reached: len(results) > self.page_size and page_end < len(results)
PromptAfterPage(page_end, size, n) == n > size /\ page_end < n

\* response.lower() == 'q'
QuitsViewing(response) == Lower(response) = "q"

\* the next value of range(0, len(results), self.page_size), or the end of the loop
NextPage(d, size, n) ==
    IF d.page_start + size < n
    THEN [d EXCEPT !.pc = "page", !.page_start = d.page_start + size]
    ELSE [d EXCEPT !.pc = "done"]

\* the guard "if not results" and the heading
display_begin ==
    /\ display.pc = "start"
    /\ display' = [display EXCEPT !.pc = IF last_results = <<>> THEN "done" ELSE "page"]
    /\ UNCHANGED <<session, environment, running, line, out, shown>>

\* one pass of the loop body up to the prompt
display_page ==
    /\ display.pc = "page"
    /\ LET n        == Len(last_results)
           page_end == PageEnd(display.page_start, page_size, n)
           printed  == [display EXCEPT
                          !.displayed = @ \o [k \in 1..(page_end - display.page_start) |->
                                                RowText(last_results[display.page_start + k])],
                          !.pages = @ + 1]
       IN  display' = IF PromptAfterPage(page_end, page_size, n)
                      THEN [printed EXCEPT !.pc = "prompt"]
                      ELSE NextPage(printed, page_size, n)
    /\ UNCHANGED <<session, environment, running, line, out, shown>>

\* input(...) returns the operator's answer
display_answer ==
    /\ display.pc = "prompt"
    /\ \E response \in {"", "n", "q", "Q"} :
         LET asked == [display EXCEPT !.prompts = @ + 1,
                                      !.answers = Append(@, response)]
         IN  display' = IF QuitsViewing(response)
                        THEN [asked EXCEPT !.pc = "done"]
                        ELSE NextPage(asked, page_size, Len(last_results))
    /\ UNCHANGED <<session, environment, running, line, out, shown>>

\* the rows the engine can hand to fetchall, and the page sizes pagesize can set
DisplayRows ==
    UNION {[1..k -> {<<IntVal(1)>>, <<StrVal("x")>>}] : k \in 0..MaxShown}

PageSizes == (1..MaxPage) \cup {DefaultPageSize}

\* the session when do_query enters _display_results: connected to demo.db,
\* table t created and filled, the page size set, the SELECT just executed
DisplayInit ==
    \E rows \in DisplayRows, size \in PageSizes :
        /\ connection = [id |-> 1, path |-> P_DEMO]
        /\ database_path = P_DEMO
        /\ query_history =
               <<WriteEntry(S_CREATE, -1)>>
               \o [k \in 1..Len(rows) |->
                      WriteEntry(IF rows[k] = <<IntVal(1)>> THEN S_INSERT ELSE S_INSERT_X, 1)]
               \o <<SelectEntry(S_SELECT, rows)>>
        /\ last_results = [k \in 1..Len(rows) |-> FetchRow(rows[k])]
        /\ page_size = size
        /\ open_handles = {1}
        /\ db = [p \in DbPaths |-> IF p = P_DEMO THEN [tbl |-> TRUE, rows |-> rows]
                                   ELSE EmptyDb]
        /\ dirs = InitialDirs
        /\ files = [f \in FileNames |-> Absent]
        /\ running = TRUE
        /\ line = [cmd |-> "query", arg |-> S_SELECT]
        /\ out = DisplayResults(last_results)
        /\ shown = <<>>
        /\ display = [NotDisplaying EXCEPT !.pc = "start"]

DisplayNext ==
    \/ display_begin
    \/ display_page
    \/ display_answer

\* the loop runs on the one thread of the shell, and the operator answers
\* each prompt
DisplaySpec == DisplayInit /\ [][DisplayNext]_vars /\ WF_vars(DisplayNext)

\* ------------------------------------------------------------------ claims
RegisteredCommands ==
    {"connect", "query", "save", "history", "tables", "describe", "pagesize",
     "clear", "status", "exit", "quit", "help"}

\* what a query prints when the engine executed the statement
QueryOk == {"query: results", "query: no results found", "query: executed"}

\* the statements whose stripped text starts with SELECT in any letter case
SelectTexts == {S_SELECT, S_select}

\* the messages that report an error
ErrorOuts ==
    {"connect: usage", "connect: unexpected error",
     "connect: database connection error",
     "query: no connection", "query: usage", "query: SQL error",
     "save: no results to save", "save: usage", "save: unsupported format",
     "save: error saving file",
     "history: invalid limit",
     "tables: no connection", "tables: error retrieving tables",
     "describe: no connection", "describe: usage", "describe: SQL error",
     "describe: table not found",
     "pagesize: invalid page size number", "pagesize: must be greater than 0"}

\* the decimal arguments of the input lines and the integers they denote
NumericArgs == {<<"0">>, <<"1">>, <<"2">>, <<"-", "5">>}

ArgNumber(arg) ==
    CASE arg = <<"0">>      -> 0
      [] arg = <<"1">>      -> 1
      [] arg = <<"2">>      -> 2
      [] arg = <<"-", "5">> -> -5

\* the rows of table t of the database the session is connected to, as the
\* engine holds them, one mapping per row
EngineRows ==
    [k \in 1..Len(db[connection.path].rows) |-> [a |-> db[connection.path].rows[k][1]]]

\* C1: last_results is empty at the start; a step changes it only when it is a
\* query the engine executed whose text starts with SELECT in any letter case,
\* and then it becomes the rows fetched; a non-SELECT query, a rejected query
\* and any other command leave it as it was.
C1_LastResultsFollowSelect ==
    /\ last_results = <<>>
    /\ [][IF line'.cmd = "query" /\ line'.arg \in SelectTexts /\ out' \in QueryOk
          THEN last_results' = EngineRows
          ELSE last_results' = last_results]_vars

C1_Witness ==
    /\ line = [cmd |-> "query", arg |-> S_select]
    /\ out = "query: results"
    /\ Len(last_results) = 1
    /\ Len(query_history) = 3

\* C2: a query the engine executed appends exactly one entry at the end of the
\* history, with row_count for a SELECT and rows_affected otherwise, never
\* both; every other step (a rejected query included) leaves the history as
\* it was, so the history before a step is a prefix of the history after it.
C2_HistoryAppendOnly ==
    [][IF line'.cmd = "query" /\ out' \in QueryOk
       THEN /\ Len(query_history') = Len(query_history) + 1
            /\ SubSeq(query_history', 1, Len(query_history)) = query_history
            /\ LET e == query_history'[Len(query_history')]
               IN  /\ e.query = line'.arg
                   /\ IF line'.arg \in SelectTexts
                      THEN /\ DOMAIN e = {"query", "row_count"}
                           /\ e.row_count = Len(last_results')
                      ELSE DOMAIN e = {"query", "rows_affected"}
       ELSE query_history' = query_history]_vars

C2_Witness ==
    /\ line.cmd = "query"
    /\ out \in QueryOk
    /\ Len(query_history) = 3
    /\ "rows_affected" \in DOMAIN query_history[2]
    /\ "row_count" \in DOMAIN query_history[3]

\* C3: a step whose command ends in an error leaves the session (connection,
\* database_path, history, last results, page size) and the open or closed
\* status of the handles exactly as they were, a failing connect with a
\* connection open included.
C3_ErrorsLeaveSessionUnchanged ==
    [][out' \in ErrorOuts => UNCHANGED <<session, open_handles>>]_vars

\* C4: after a connect whose directory creation or open failed, the session
\* holds no connection, whether or not one was open before.
C4_FailedConnectLeavesDisconnected ==
    (/\ line.cmd = "connect"
     /\ out \in {"connect: unexpected error", "connect: database connection error"})
    => connection = None

\* C5: page_size starts at 20 and stays >= 1; pagesize with an integer n >= 1
\* sets it to n; pagesize with a non-positive or non-numeric argument or with
\* no argument, and every other command, leave it as it was.
C5_PageSizePositive ==
    /\ page_size = 20
    /\ [][/\ page_size' >= 1
          /\ IF /\ line'.cmd = "pagesize"
                /\ line'.arg \in NumericArgs
                /\ ArgNumber(line'.arg) >= 1
             THEN page_size' = ArgNumber(line'.arg)
             ELSE page_size' = page_size]_vars

C5_Witness ==
    /\ line = [cmd |-> "pagesize", arg |-> <<"0">>]
    /\ out = "pagesize: must be greater than 0"
    /\ page_size = 2

\* the save arguments that name a file and whose format token, lower-cased
\* (csv when there is none), is csv, json or txt
SupportedSaveArgs == {<<"out">>, <<"out", "json">>, <<"out", "TXT">>, <<"tmp">>}

\* C6: save changes a file only when last_results is non-empty, a filename is
\* given and the format is csv, json or txt in any letter case (csv by
\* default); with empty last_results or an unsupported format it reports an
\* error and leaves the files alone; it never changes the session or a handle.
C6_SaveWritesOnlyValidExports ==
    [][line'.cmd = "save" =>
         /\ UNCHANGED <<session, open_handles>>
         /\ files' # files =>
                last_results # <<>> /\ line'.arg \in SupportedSaveArgs
         /\ (last_results = <<>> \/ line'.arg = <<"out", "xml">>) =>
                out' \in ErrorOuts /\ files' = files]_vars

C6_Witness ==
    /\ line = [cmd |-> "save", arg |-> <<"out", "xml">>]
    /\ out = "save: unsupported format"
    /\ files["out"].fmt = "txt"
    /\ last_results # <<>>

\* C7: history with a numeric limit n >= 0 lists exactly the min(n, h) most
\* recent of the h entries, oldest first, never more than n; history with no
\* argument lists all h entries.
C7_HistoryLimit ==
    line.cmd = "history" =>
        IF line.arg = <<>> THEN shown = query_history
        ELSE IF line.arg \in NumericArgs /\ ArgNumber(line.arg) >= 0
        THEN LET n == ArgNumber(line.arg)
                 h == Len(query_history)
                 m == IF n < h THEN n ELSE h
             IN  /\ Len(shown) <= n
                 /\ shown = SubSeq(query_history, h - m + 1, h)
        ELSE TRUE

\* the session went connect, CREATE TABLE t(a INT), INSERT INTO t VALUES (1),
\* SELECT * FROM t, each statement executed, and the SELECT is the last command
Scenario ==
    /\ line = [cmd |-> "query", arg |-> S_SELECT]
    /\ out \in QueryOk
    /\ [k \in 1..Len(query_history) |-> query_history[k].query]
           = <<S_CREATE, S_INSERT, S_SELECT>>

\* C8 as stated: after the scenario last_results is one row mapping a to the
\* string "1", the history has length 3 and its last entry has row_count 1.
C8_RowsCapturedAsStrings ==
    Scenario =>
        /\ last_results = <<[a |-> StrVal("1")]>>
        /\ Len(query_history) = 3
        /\ DOMAIN query_history[3] = {"query", "row_count"}
        /\ query_history[3].row_count = 1

\* C8 as amended: after the scenario last_results is one row mapping a to the
\* integer 1 as the engine returned it, the history has length 3 and its last
\* entry has row_count 1.
C8_RowsCapturedAsFetched ==
    Scenario =>
        /\ last_results = <<[a |-> IntVal(1)]>>
        /\ Len(query_history) = 3
        /\ DOMAIN query_history[3] = {"query", "row_count"}
        /\ query_history[3].row_count = 1

C8_Witness == Scenario /\ db[P_DEMO].rows = <<<<IntVal(1)>>>>

\* C9: at most one handle is open, and it is the one the session holds; once
\* exit or quit has run no handle is open and no further command is processed.
C9_AtMostOneHandle ==
    /\ Cardinality(open_handles) <= 1
    /\ open_handles \subseteq {connection.id}
    /\ ~running => open_handles = {} /\ line.cmd \in {"exit", "quit"}

C9_Witness ==
    /\ ~running
    /\ connection.path = P_OTHER
    /\ db[P_DEMO].tbl
    /\ db[P_OTHER].tbl

\* C10: a line whose keyword is not a registered command prints the
\* unknown-command message and changes nothing of the session or the
\* environment; an empty line changes nothing and prints nothing.
C10_UnknownAndEmptyLines ==
    [][/\ line'.cmd \notin RegisteredCommands \cup {""} =>
              out' = "unknown command" /\ UNCHANGED <<session, environment, running>>
       /\ line'.cmd = "" =>
              out' = "" /\ UNCHANGED <<session, environment, running>>]_vars

C10_Witness ==
    /\ line = [cmd |-> "QUERY", arg |-> S_SELECT]
    /\ out = "unknown command"
    /\ connection # None
    /\ db[connection.path].rows # <<>>
    /\ last_results = <<>>

\* ceil(n / p)
Ceil(n, p) == (n + p - 1) \div p

\* What the pager has done so far, given the set of answers that stop it:
\* the rows printed are the first rows of the result, in order, in whole
\* pages of page_size rows (the last one shorter); one prompt has been
\* answered per page printed before the current one, and none after the
\* final page; a stopping answer is the last answer and ends the display at
\* once; without a stopping answer the display ends with every row printed
\* once, in ceil(n / page_size) pages.
Paging(stopping) ==
    LET n == Len(last_results)
        p == page_size
        d == display
        stopped == \E k \in 1..Len(d.answers) : d.answers[k] \in stopping
    IN  n > 0 =>
        /\ Len(d.displayed) <= n
        /\ d.displayed = [k \in 1..Len(d.displayed) |-> <<Str(last_results[k].a).s>>]
        /\ Len(d.displayed) = IF d.pages * p < n THEN d.pages * p ELSE n
        /\ d.prompts = Len(d.answers)
        /\ d.pc = "page" => d.prompts = d.pages /\ Len(d.displayed) < n
        /\ d.pc = "prompt" => d.prompts = d.pages - 1 /\ Len(d.displayed) < n
        /\ \A k \in 1..Len(d.answers) :
               d.answers[k] \in stopping => k = Len(d.answers) /\ d.pc = "done"
        /\ d.pc = "done" =>
               IF stopped
               THEN d.prompts = d.pages /\ Len(d.displayed) < n
               ELSE /\ Len(d.displayed) = n
                    /\ d.pages = Ceil(n, p)
                    /\ d.prompts = d.pages - 1

\* C11 as stated: the answer q, and only it, stops the display; rows are
\* shown in order in pages of page_size, with one prompt after each
\* non-final page and none after the final one; if the operator never
\* answers q every row is shown once, in ceil(n / page_size) pages.
C11_PagingStoppedByQ == Paging({"q"})

\* C11 as amended: the same with the answers q and Q both stopping the
\* display; moreover the display changes nothing of the session or the
\* environment, and it terminates.
C11_PagingStoppedByQInAnyCase ==
    /\ [](Paging({"q", "Q"}))
    /\ [][UNCHANGED <<session, environment, running>>]_vars
    /\ <>(display.pc = "done")

C11_Witness ==
    /\ display.pc = "done"
    /\ Len(last_results) = 4
    /\ page_size = 3
    /\ display.answers = <<"n">>
    /\ display.pages = 2
    /\ Len(display.displayed) = 4

\* C12: a connect that succeeds sets connection and database_path to the new
\* database and leaves query_history, last_results and page_size as they
\* were; so whatever database is connected, a save that succeeds writes the
\* rows of last_results and status reports the length of the whole history.
C12_ConnectCarriesSessionOver ==
    [][/\ (line'.cmd = "connect" /\ out' = "connect: connected") =>
              /\ connection'.path = line'.arg
              /\ database_path' = line'.arg
              /\ UNCHANGED <<query_history, last_results, page_size>>
       /\ (line'.cmd = "save" /\ out' = "save: saved") =>
              /\ line'.arg = <<"out", "json">> =>
                     files'["out"] = [fmt |-> "json", data |-> last_results]
              /\ line'.arg = <<"out">> =>
                     files'["out"] =
                         [fmt |-> "csv",
                          data |-> <<<<"a">>>> \o
                                   [k \in 1..Len(last_results) |->
                                        <<Str(last_results[k].a).s>>]]
              /\ line'.arg = <<"out", "TXT">> =>
                     /\ files'["out"].fmt = "txt"
                     /\ Len(files'["out"].data) = Len(last_results) + 2
       /\ (line'.cmd = "status" /\ out' = "status: connected") =>
              /\ shown'[1].connected_to = database_path
              /\ shown'[1].queries_executed = Len(query_history)
              /\ shown'[1].page_size = page_size]_vars

C12_Witness ==
    /\ line = [cmd |-> "save", arg |-> <<"out", "json">>]
    /\ out = "save: saved"
    /\ connection.path = P_OTHER
    /\ ~db[P_OTHER].tbl
    /\ Len(query_history) = 3
    /\ last_results = <<[a |-> IntVal(1)]>>
    /\ files["out"].data = last_results
====
